---- MODULE Spec2Model ----
(***************************************************************************)
(* Shamir secret sharing over GF(256): the log/exp tables of GF256elt,     *)
(* the table-based field arithmetic, and the encode / decode engines of    *)
(* PySSSS.                                                                 *)
(***************************************************************************)
EXTENDS Integers, Sequences, FiniteSets, TLC

VARIABLES
  logtable, exptable,      \* GF256elt.__logtable / __exptable (process-wide)
  gpc, gi, gexp,           \* table generation: position, loop index, local exp
  opa, opb, quot, prod, lg,\* operands and results of the field operations
  n, k, stream, spos,      \* encode: share count, threshold, secret, read position
  picked, picks, pick,     \* encode: duplicate markers, chosen X values, last draw
  outputs, epc,            \* encode: the n share sinks, position in encode
  keys, kpos, output,      \* decode: share streams, their read positions, sink
  i, points, end_of_key,   \* decode: loop index, points of the round, EOF flag
  dpc                      \* decode: position in decode

fvars == <<logtable, exptable, gpc, gi, gexp, opa, opb, quot, prod, lg>>
evars == <<n, k, stream, spos, picked, picks, pick, outputs, epc>>
dvars == <<keys, kpos, output, i, points, end_of_key, dpc>>
vars == <<fvars, evars, dvars>>

\* The value standing for "raise Exception()": no field element is returned.
Raise == -1
\* The value of a result that has not been computed.
None == -2

Byte == 0..255

--------------------------------------------------------------------------
(* Python's ^ on non-negative integers. *)
RECURSIVE XOR(_, _)
XOR(x, y) ==
  IF x = 0 THEN y
  ELSE IF y = 0 THEN x
  ELSE (((x % 2) + (y % 2)) % 2) + (2 * XOR(x \div 2, y \div 2))

(* [0] * 256 *)
ZeroTable == [v \in 0..255 |-> 0]

gf_order == 256
prime_poly == 285    \* 0x11d

--------------------------------------------------------------------------
(* generate_pplogexp_tables: the state before the loop, and one iteration. *)
pp_start ==
  [log |-> [ZeroTable EXCEPT ![0] = (1 - gf_order) % 256],
   exp |-> [ZeroTable EXCEPT ![0] = 1]]

pp_value(prev, pp) ==
  LET d == prev * 2
      e == IF d >= gf_order THEN XOR(d, pp) ELSE d
  IN  e % 256

pp_step(t, idx, pp) ==
  LET e == pp_value(t.exp[idx - 1], pp)
  IN  [log |-> [t.log EXCEPT ![e] = idx],
       exp |-> [t.exp EXCEPT ![idx] = e]]

(* The loop iterations lo .. hi applied in order to the tables t (the     *)
(* range is halved so that the evaluation stays shallow; an index outside  *)
(* the tables ends the loop).                                              *)
RECURSIVE pp_loop(_, _, _, _)
pp_loop(t, lo, hi, pp) ==
  IF lo > hi \/ lo \notin DOMAIN t.exp THEN t
  ELSE IF lo = hi THEN pp_step(t, lo, pp)
  ELSE LET mid == (lo + hi) \div 2
       IN  pp_loop(pp_loop(t, lo, mid, pp), mid + 1, hi, pp)

generate_pplogexp_tables(pp) == pp_loop(pp_start, 1, gf_order - 1, pp)

(* generate_logexp_tables: one iteration of the loop over exponent, on the *)
(* local exp and the two tables, and the two assignments after the loop.   *)
logexp_step(t, exponent, e0) ==
  LET e == e0 % 256
      d == (e \div 128) % 2
      s == e * 2
      r == IF d = 1 THEN XOR(s, 27) ELSE s
  IN  [log |-> [t.log EXCEPT ![e] = exponent],
       exp |-> [t.exp EXCEPT ![exponent] = e],
       e   |-> XOR(r, e)]

logexp_finish(t) ==
  [log |-> [t.log EXCEPT ![0] = 0],
   exp |-> [t.exp EXCEPT ![255] = t.exp[0]]]

--------------------------------------------------------------------------
(* GF256elt arithmetic on byte values, over the current tables. *)
GF256elt(value) == value % 256

log(x) == IF x = 0 THEN Raise ELSE logtable[x]

(* x ^ y on byte values, tabulated: xor8[x + 1][y + 1] = XOR(x, y) *)
xor8 == [x \in 1..256 |-> [y \in 1..256 |-> XOR(x - 1, y - 1)] \o << >>] \o << >>

add(x, y) == GF256elt(xor8[x + 1][y + 1])

(* mul with the power reduced modulo 256 in place of 255 *)
mul_mod256(x, y) ==
  IF x = 0 \/ y = 0 THEN GF256elt(0)
  ELSE GF256elt(exptable[(log(x) + log(y)) % 256])

mul(x, y) ==
  IF x = 0 \/ y = 0 THEN GF256elt(0)
  ELSE GF256elt(exptable[(log(x) + log(y)) % 255])

(* truediv with the test of the first term ahead of the test of the second *)
truediv_zero_first(x, y) ==
  IF x = 0 THEN GF256elt(0)
  ELSE IF y = 0 THEN Raise
  ELSE GF256elt(exptable[(log(x) - log(y)) % 255])

(* truediv with the two logs subtracted the wrong way round *)
truediv_swapped(x, y) ==
  IF y = 0 THEN Raise
  ELSE IF x = 0 THEN GF256elt(0)
  ELSE GF256elt(exptable[(log(y) - log(x)) % 255])

truediv(x, y) ==
  IF y = 0 THEN Raise
  ELSE IF x = 0 THEN GF256elt(0)
  ELSE GF256elt(exptable[(log(x) - log(y)) % 255])

--------------------------------------------------------------------------
(* Table generation, one loop iteration per step. *)
NoOps == opa = 0 /\ opb = 0 /\ quot = None /\ prod = None /\ lg = None

NoEncode ==
  /\ n = 0 /\ k = 0 /\ stream = << >> /\ spos = 0
  /\ picked = {} /\ picks = << >> /\ pick = 0
  /\ outputs = << >> /\ epc = "idle"

NoDecode ==
  /\ keys = << >> /\ kpos = << >> /\ output = << >>
  /\ i = 0 /\ points = << >> /\ end_of_key = FALSE /\ dpc = "idle"

TableInit ==
  /\ logtable = << >> /\ exptable = << >>
  /\ gpc = "load" /\ gi = 0 /\ gexp = 0
  /\ NoOps /\ NoEncode /\ NoDecode

PPStart ==
  /\ gpc = "load"
  /\ logtable' = pp_start.log /\ exptable' = pp_start.exp
  /\ gi' = 1 /\ gpc' = "pp"
  /\ UNCHANGED <<gexp, opa, opb, quot, prod, lg, evars, dvars>>

PPStep ==
  /\ gpc = "pp" /\ gi < gf_order
  /\ LET t == pp_step([log |-> logtable, exp |-> exptable], gi, prime_poly)
     IN  logtable' = t.log /\ exptable' = t.exp
  /\ gi' = gi + 1
  /\ gpc' = IF gi + 1 >= gf_order THEN "ppdone" ELSE "pp"
  /\ UNCHANGED <<gexp, opa, opb, quot, prod, lg, evars, dvars>>

LogexpStart ==
  /\ gpc = "load"
  /\ logtable' = ZeroTable /\ exptable' = ZeroTable
  /\ gexp' = 1 /\ gi' = 0 /\ gpc' = "logexp"
  /\ UNCHANGED <<opa, opb, quot, prod, lg, evars, dvars>>

LogexpStep ==
  /\ gpc = "logexp" /\ gi < 255
  /\ LET t == logexp_step([log |-> logtable, exp |-> exptable], gi, gexp)
     IN  logtable' = t.log /\ exptable' = t.exp /\ gexp' = t.e
  /\ gi' = gi + 1
  /\ UNCHANGED <<gpc, opa, opb, quot, prod, lg, evars, dvars>>

LogexpFinish ==
  /\ gpc = "logexp" /\ gi = 255
  /\ LET t == logexp_finish([log |-> logtable, exp |-> exptable])
     IN  logtable' = t.log /\ exptable' = t.exp
  /\ gpc' = "logexpdone"
  /\ UNCHANGED <<gi, gexp, opa, opb, quot, prod, lg, evars, dvars>>

TableNext == PPStart \/ PPStep \/ LogexpStart \/ LogexpStep \/ LogexpFinish

TableSpec == TableInit /\ [][TableNext]_vars

--------------------------------------------------------------------------
(* Field operations on the tables left by module initialization           *)
(* (GF256elt.generate_pplogexp_tables(0x11d) at the end of GF256elt.py).   *)
LoadedTables == generate_pplogexp_tables(prime_poly)

ModuleLoaded ==
  /\ logtable = LoadedTables.log
  /\ exptable = LoadedTables.exp
  /\ gpc = "ppdone" /\ gi = gf_order /\ gexp = 0

FieldInit ==
  /\ ModuleLoaded
  /\ opa \in Byte /\ opb \in Byte
  /\ quot = None /\ prod = None /\ lg = None
  /\ NoEncode /\ NoDecode

(* quot = opb / opa *)
Truediv ==
  /\ quot = None
  /\ quot' = truediv(opb, opa)
  /\ UNCHANGED <<logtable, exptable, gpc, gi, gexp, opa, opb, prod, lg, evars, dvars>>

(* prod = opa * quot, when the division returned an element *)
Mul ==
  /\ quot \in Byte /\ prod = None
  /\ prod' = mul(opa, quot)
  /\ UNCHANGED <<logtable, exptable, gpc, gi, gexp, opa, opb, quot, lg, evars, dvars>>

(* lg = opa.log() *)
Log ==
  /\ lg = None
  /\ lg' = log(opa)
  /\ UNCHANGED <<logtable, exptable, gpc, gi, gexp, opa, opb, quot, prod, evars, dvars>>

FieldNext == Truediv \/ Mul \/ Log

FieldSpec == FieldInit /\ [][FieldNext]_vars

--------------------------------------------------------------------------
(* PGF256 and PGF256Interpolator: polynomials over the field as coefficient *)
(* sequences <<c0, c1, ..., cd>>, Horner evaluation, Lagrange interpolation *)
(* in coefficient form.                                                     *)
PGF256(coeffs) == coeffs

RECURSIVE horner(_, _, _, _)
horner(coeffs, j, x, acc) ==
  IF j = 0 THEN acc
  ELSE horner(coeffs, j - 1, x, add(mul(acc, x), coeffs[j]))

(* P.f(x) *)
f(P, x) == IF Len(P) = 0 THEN Raise ELSE horner(P, Len(P), x, GF256elt(0))

poly_add(P, Q) ==
  [j \in 1..(IF Len(P) > Len(Q) THEN Len(P) ELSE Len(Q)) |->
     add(IF j <= Len(P) THEN P[j] ELSE 0, IF j <= Len(Q) THEN Q[j] ELSE 0)]

poly_scale(P, c) == [j \in 1..Len(P) |-> mul(P[j], c)]

(* P * (x - r); subtraction is addition in GF(256) *)
poly_mul_linear(P, r) ==
  [j \in 1..(Len(P) + 1) |->
     add(IF j > 1 THEN P[j - 1] ELSE 0,
         IF j <= Len(P) THEN mul(P[j], r) ELSE 0)]

(* prod over j # m of (x - x_j), as a polynomial *)
RECURSIVE numerator(_, _, _)
numerator(pts, m, j) ==
  IF j = 0 THEN <<GF256elt(1)>>
  ELSE IF j = m THEN numerator(pts, m, j - 1)
  ELSE poly_mul_linear(numerator(pts, m, j - 1), pts[j][1])

(* y_m / prod over j # m of (x_m - x_j); Raise when two X coincide, and  *)
(* the interpolation then yields <<Raise>> in place of a polynomial        *)
RECURSIVE weight(_, _, _)
weight(pts, m, j) ==
  IF j = 0 THEN pts[m][2]
  ELSE IF j = m THEN weight(pts, m, j - 1)
  ELSE LET w == weight(pts, m, j - 1)
       IN  IF w = Raise THEN Raise
           ELSE truediv(w, add(pts[m][1], pts[j][1]))

RECURSIVE lagrange(_, _)
lagrange(pts, m) ==
  IF m = 0 THEN << >>
  ELSE LET rest == lagrange(pts, m - 1)
           w == weight(pts, m, Len(pts))
       IN  IF rest = <<Raise>> \/ w = Raise THEN <<Raise>>
           ELSE poly_add(rest, poly_scale(numerator(pts, m, Len(pts)), w))

interpolate(pts) == lagrange(pts, Len(pts))

--------------------------------------------------------------------------
(* encode *)
randint(lo, hi) == lo..hi

\* The X values the identifier draws of a run are taken from.
PickSet == {1, 2, 3, 255}
\* The secrets of a run are the prefixes of these two byte strings: the
\* first bytes of b"Too many secrets, Marty!" and a string of extreme bytes.
Texts == { <<84, 111, 111, 32, 109>>, <<0, 255, 128, 1, 254>> }
\* Largest number of share sinks, and longest secret.
MaxN == 3
MaxLen == 2

(* The d draws of pickRandomPolynomial, taken from two sequences of         *)
(* random.randint(0,255) values.                                            *)
RandomDraws(d) ==
  IF d < 1 THEN { << >> }
  ELSE { [c \in 1..d |-> 0], [c \in 1..d |-> 82 + c] } \cap [1..d -> randint(0, 255)]

(* pickRandomPolynomial with the loop one iteration short *)
pickRandomPolynomial_short(degree, value, draws) ==
  PGF256(<<value>> \o (IF degree < 2 THEN << >>
                        ELSE [c \in 1..(degree - 1) |-> GF256elt(draws[c])]))

(* draws[c] is the value of random.randint(0,255) in iteration c *)
pickRandomPolynomial(degree, value, draws) ==
  PGF256(<<value>> \o (IF degree < 1 THEN << >>
                        ELSE [c \in 1..degree |-> GF256elt(draws[c])]))

(* encodeByte without the X byte of each record *)
encodeByte_noX(byte, nn, kk, pks, draws) ==
  LET P == pickRandomPolynomial(kk - 1, GF256elt(byte), draws)
  IN  [j \in 1..nn |-> <<f(P, GF256elt(pks[j]))>>]

(* the keys of one byte: for each share i, the record <<X, Y>> *)
encodeByte(byte, nn, kk, pks, draws) ==
  LET P == pickRandomPolynomial(kk - 1, GF256elt(byte), draws)
  IN  [j \in 1..nn |-> <<GF256elt(pks[j]), f(P, GF256elt(pks[j]))>>]

Secrets == { SubSeq(t, 1, l) : t \in Texts, l \in 0..MaxLen }

EncRun(nn, kk) ==
  /\ n = nn /\ k = kk
  /\ stream \in Secrets /\ spos = 0
  /\ picked = {} /\ picks = << >> /\ pick = 0
  /\ outputs = [j \in 1..nn |-> << >>]
  /\ epc = "pick"

EncInit ==
  /\ ModuleLoaded /\ NoOps /\ NoDecode
  /\ \E nn \in 1..MaxN : \E kk \in 0..(nn + 1) : EncRun(nn, kk)

(* Pick without the test of picked[pick] *)
Pick_unchecked ==
  /\ epc = "pick"
  /\ \E p \in PickSet \cap randint(1, 255) :
       /\ pick' = p
       /\ picked' = picked \cup {p}
       /\ picks' = Append(picks, p)
       /\ epc' = IF Len(picks) + 1 = n THEN "read" ELSE "pick"
  /\ UNCHANGED <<n, k, stream, spos, outputs, fvars, dvars>>

(* one iteration of "while True: pick = random.randint(1, 255) ..." *)
Pick ==
  /\ epc = "pick"
  /\ \E p \in PickSet \cap randint(1, 255) :
       /\ pick' = p
       /\ IF p \in picked
          THEN UNCHANGED <<picked, picks, epc>>
          ELSE /\ picked' = picked \cup {p}
               /\ picks' = Append(picks, p)
               /\ epc' = IF Len(picks) + 1 = n THEN "read" ELSE "pick"
  /\ UNCHANGED <<n, k, stream, spos, outputs, fvars, dvars>>

(* the draws of Pick that leave the inner loop *)
PickNew ==
  /\ epc = "pick"
  /\ \E p \in (PickSet \cap randint(1, 255)) \ picked :
       /\ pick' = p
       /\ picked' = picked \cup {p}
       /\ picks' = Append(picks, p)
       /\ epc' = IF Len(picks) + 1 = n THEN "read" ELSE "pick"
  /\ UNCHANGED <<n, k, stream, spos, outputs, fvars, dvars>>

(* one iteration of the loop through the chars: read, encodeByte, write *)
ReadByte ==
  /\ epc = "read"
  /\ IF spos = Len(stream)
     THEN /\ epc' = "done"
          /\ UNCHANGED <<spos, outputs>>
     ELSE /\ \E draws \in RandomDraws(k - 1) :
               LET ks == encodeByte(stream[spos + 1], n, k, picks, draws)
               IN  outputs' = [j \in 1..n |-> outputs[j] \o ks[j]]
          /\ spos' = spos + 1
          /\ UNCHANGED epc
  /\ UNCHANGED <<n, k, stream, picked, picks, pick, fvars, dvars>>

EncNext == Pick \/ ReadByte

EncSpec == EncInit /\ [][EncNext]_vars

EncFairSpec == EncSpec /\ WF_vars(PickNew) /\ WF_vars(ReadByte)

--------------------------------------------------------------------------
(* decode *)
\* Most share streams handed to decode, and the longest of them in bytes.
MaxKeys == 3
MaxKeyLen == 4
\* The X values of the share streams handed to decode.
KeyXs == {1, 2, 3}

(* The streams handed to decode: the first l bytes of X, Y, X, Y, ... for  *)
(* one X; odd l gives a stream that ends after an X byte.                  *)
KeyStreams ==
  { [j \in 1..l |-> IF j % 2 = 1 THEN x ELSE (7 * x + j) % 256] :
      x \in KeyXs, l \in 0..MaxKeyLen }

(* keys[j].read(1) at position pos: the byte, or None at end of stream *)
read(key, pos) == IF pos < Len(key) THEN key[pos + 1] ELSE None

DecRun(ks) ==
  /\ keys = ks /\ kpos = [j \in 1..Len(ks) |-> 0]
  /\ output = << >>
  /\ i = 0 /\ points = << >> /\ end_of_key = FALSE
  /\ dpc = "while"

DecInit ==
  /\ ModuleLoaded /\ NoOps /\ NoEncode
  /\ \E m \in 1..MaxKeys : \E ks \in [1..m -> KeyStreams] : DecRun(ks)

(* while not end_of_key: points = []; enter the for loop *)
While ==
  /\ dpc = "while"
  /\ IF end_of_key
     THEN dpc' = "complete" /\ UNCHANGED <<points, i>>
     ELSE points' = << >> /\ i' = 0 /\ dpc' = "for"
  /\ UNCHANGED <<keys, kpos, output, end_of_key, fvars, evars>>

(* one iteration of "for i in range(0,len(keys))": i is 0-based *)
ReadKey ==
  /\ dpc = "for"
  /\ LET b == read(keys[i + 1], kpos[i + 1])
         Y == read(keys[i + 1], kpos[i + 1] + 1)
     IN  IF b = None
         THEN /\ end_of_key' = TRUE
              /\ dpc' = "if"
              /\ UNCHANGED <<kpos, points, i>>
         ELSE IF Y = None
         THEN \* ord(b'') raises TypeError
              /\ kpos' = [kpos EXCEPT ![i + 1] = @ + 1]
              /\ dpc' = "failed"
              /\ UNCHANGED <<points, i, end_of_key>>
         ELSE /\ kpos' = [kpos EXCEPT ![i + 1] = @ + 2]
              /\ points' = Append(points, <<GF256elt(b), GF256elt(Y)>>)
              /\ IF i + 1 < Len(keys)
                 THEN i' = i + 1 /\ UNCHANGED dpc
                 ELSE dpc' = "if" /\ UNCHANGED i
              /\ UNCHANGED end_of_key
  /\ UNCHANGED <<keys, output, fvars, evars>>

(* "if end_of_key: ..." and the decoding of the next byte *)
Decode ==
  /\ dpc = "if"
  /\ IF end_of_key
     THEN /\ dpc' = IF 0 # i THEN "failed" ELSE "complete"
          /\ UNCHANGED output
     ELSE LET P == interpolate(points)
              byte == IF P = <<Raise>> THEN Raise ELSE f(P, GF256elt(0))
          IN  IF byte = Raise
              THEN dpc' = "failed" /\ UNCHANGED output
              ELSE dpc' = "while" /\ output' = Append(output, byte)
  /\ UNCHANGED <<keys, kpos, i, points, end_of_key, fvars, evars>>

DecNext == While \/ ReadKey \/ Decode

DecSpec == DecInit /\ [][DecNext]_vars

--------------------------------------------------------------------------
(* The round trip of __main__: encode, then decode on k of the n outputs,  *)
(* each rewound to its start.                                              *)
RoundInit ==
  /\ ModuleLoaded /\ NoOps /\ NoDecode
  /\ \E nn \in 2..MaxN : \E kk \in 2..nn : EncRun(nn, kk)

(* the sequences of kk distinct indices of 1..nn *)
Selections(nn, kk) ==
  { sel \in [1..kk -> 1..nn] : \A x, y \in 1..kk : x # y => sel[x] # sel[y] }

Select ==
  /\ epc = "done" /\ dpc = "idle"
  /\ \E sel \in Selections(n, k) :
       /\ keys' = [j \in 1..k |-> outputs[sel[j]]]
       /\ kpos' = [j \in 1..k |-> 0]
  /\ output' = << >> /\ dpc' = "while"
  /\ UNCHANGED <<i, points, end_of_key, fvars, evars>>

RoundNext == EncNext \/ Select \/ DecNext

RoundSpec == RoundInit /\ [][RoundNext]_vars

--------------------------------------------------------------------------
(* What K-1 shares show of one secret byte. *)
MaxSecrecyK == 2
Candidates == {0, 255}

SecrecyInit ==
  /\ ModuleLoaded /\ NoOps /\ NoDecode
  /\ \E kk \in 2..MaxSecrecyK : EncRun(kk, kk)
  /\ Len(stream) = 1

SecrecySpec == SecrecyInit /\ [][EncNext]_vars

(* the draws with which secret byte sb gives the shares 1 .. k-1 the Y     *)
(* values of their first record                                            *)
Consistent(sb) ==
  { draws \in [1..(k - 1) -> randint(0, 255)] :
      \A j \in 1..(k - 1) :
        f(pickRandomPolynomial(k - 1, GF256elt(sb), draws), GF256elt(picks[j]))
          = outputs[j][2] }

--------------------------------------------------------------------------
(* The claims. *)

\* C1: decode on any k of the n share streams written by encode for secret
\* S (2 <= k <= n), handed over in any order, does not fail and, when it
\* completes, has written exactly S to the output.
C1_RoundTrip == dpc # "failed" /\ (dpc = "complete" => output = stream)

C1_Witness ==
  /\ dpc = "complete" /\ n = 3 /\ k = 2 /\ Len(stream) = 2
  /\ keys = <<outputs[3], outputs[1]>> /\ output = stream

\* C2: when a share stream reports end-of-stream in a round in which another
\* stream still has data, decode does not complete successfully, whichever
\* position the shorter stream has in the list, the first included.
C2_MismatchFails ==
  dpc = "complete" => \A j \in 1..Len(keys) : kpos[j] = Len(keys[j])

\* C3: encode called with K < 1, K > N or N > 255 never runs to completion
\* and writes no byte to any share sink.
C3_InvalidRejected ==
  (k < 1 \/ k > n \/ n > 255) =>
    (epc # "done" /\ \A j \in 1..n : outputs[j] = << >>)

C5_TablesMutualInverse ==
  gpc \in {"ppdone", "logexpdone"} =>
    /\ \A v \in 1..255 : exptable[logtable[v]] = v
    /\ \A e \in 0..254 : logtable[exptable[e]] = e
    /\ exptable[255] = 1 /\ exptable[0] = 1

\* C6: with the tables of module initialization, a * (b / a) = b for every
\* nonzero a and every b (opa is a, opb is b): the division returns an
\* element and the product of a with it is b.
C6_MulDiv ==
  /\ (opa # 0 /\ quot # None) => quot \in Byte
  /\ prod # None => prod = opb

C6_Witness == opa = 1 /\ opb = 255 /\ quot = 255 /\ prod = 255

\* C9: dividing by the zero element raises for every dividend, zero
\* included, the log of the zero element raises, and the tables stay as
\* module initialization left them.
C9_ZeroRaises ==
  /\ (opa = 0 /\ quot # None) => quot = Raise
  /\ (opa = 0 /\ lg # None) => lg = Raise
  /\ logtable = LoadedTables.log /\ exptable = LoadedTables.exp

C9_Witness == opa = 0 /\ opb = 0 /\ quot = Raise /\ lg = Raise

\* C7: the X values encode picks are pairwise distinct and in 1..255, all
\* n are picked before the first secret byte is read, they do not change
\* afterwards, and every record written to share j starts with picks[j].
C7_IdentifiersInv ==
  /\ \A a, b \in 1..Len(picks) : a # b => picks[a] # picks[b]
  /\ \A a \in 1..Len(picks) : picks[a] \in 1..255
  /\ (epc # "pick" \/ spos > 0) => Len(picks) = n
  /\ \A j \in 1..n :
       /\ Len(outputs[j]) = 2 * spos
       /\ \A r \in 1..spos : outputs[j][2 * r - 1] = picks[j]

C7_Identifiers ==
  []C7_IdentifiersInv /\ [][epc # "pick" => picks' = picks]_vars

C7_Witness ==
  /\ epc = "done" /\ n = 3 /\ spos = 2 /\ picks[1] = 255
  /\ outputs[1][1] = 255 /\ outputs[1][3] = 255

\* C8: for 1 <= k <= n, encode terminates when the identifier draws are
\* fair, and at termination every share stream holds 2 * Len(secret) bytes.
C8_Terminates ==
  /\ (1 <= k /\ k <= n) => <>(epc = "done")
  /\ [](( 1 <= k /\ k <= n /\ epc = "done") =>
          \A j \in 1..n : Len(outputs[j]) = 2 * Len(stream))

C8_Witness ==
  /\ epc = "done" /\ n = 3 /\ k = 2 /\ Len(stream) = 2
  /\ \A j \in 1..n : Len(outputs[j]) = 4

(* The lockstep of decode: at the start of a round every stream has had as *)
(* many records consumed as bytes were written; within a round the streams *)
(* read so far are one record ahead; a byte is written only after a record *)
(* was read from every stream; no byte is written in a round in which a    *)
(* stream reported end-of-stream; a read that finds an X byte with no Y    *)
(* byte makes decode fail.                                                 *)
Lockstep ==
  /\ dpc = "while" => \A j \in 1..Len(keys) : kpos[j] = 2 * Len(output)
  /\ dpc \in {"for", "if"} =>
       /\ Len(points) <= Len(keys)
       /\ \A j \in 1..Len(keys) :
            kpos[j] = 2 * Len(output) + (IF j <= Len(points) THEN 2 ELSE 0)
       /\ (dpc = "if" /\ ~end_of_key) => Len(points) = Len(keys)
       /\ end_of_key => Len(points) < Len(keys)
  /\ dpc = "complete" => (end_of_key /\ kpos[1] = 2 * Len(output))
  /\ \A j \in 1..Len(keys) :
       /\ 2 * Len(output) <= kpos[j]
       /\ kpos[j] % 2 = 1 => dpc = "failed"

\* C10: decode reads in lockstep (Lockstep above), and a stream that ends
\* after an X byte with no Y byte makes decode fail rather than complete:
\* decode never completes while a stream is left with a lone X byte.
C10_LockstepTruncation ==
  /\ Lockstep
  /\ dpc = "complete" => \A j \in 1..Len(keys) : Len(keys[j]) # kpos[j] + 1
====
